---- MODULE Spec2Model ----
(***************************************************************************)
(* Model of the contact worker, src/workers/contact-worker.js: the request *)
(* handler `fetch`, its two process-wide maps (rateBucket and              *)
(* idempotencyStore) and the helpers it calls.  One request runs in three  *)
(* synchronous segments separated by the two awaits of the handler         *)
(* (request.json() and the upstream fetch); segments of different requests *)
(* interleave.                                                             *)
(*                                                                         *)
(* Text is modelled as a sequence of one-character strings, a JavaScript   *)
(* Map as a function whose domain is the set of keys present, a JavaScript *)
(* object as a record.                                                     *)
(***************************************************************************)
EXTENDS Integers, Sequences, FiniteSets, TLC

\* ------------------------------------------------------------------------
\* Bounds of the model
\* ------------------------------------------------------------------------
\* Number of requests that can be in flight at once.
NumReq == 2
\* Number of times the clock advances in one behaviour.
MaxTicks == 2
\* Number of requests received in one behaviour of the whole worker.
MaxReceived == 2
\* Longest text fed to the sanitizer on its own.
MaxLen == 4

\* ------------------------------------------------------------------------
\* Program constants
\* ------------------------------------------------------------------------
RATE_WINDOW_MS == 60000
RATE_MAX == 5
IDEMPOTENCY_TTL_MS == 10 * 60000

\* Per-field maxima passed to sanitizeText by validateBody, and its default.
MaxRequestId == 120
MaxName == 120
MaxEmail == 160
MaxSubject == 180
MaxMessage == 4000
MaxTimestamp == 80

\* ------------------------------------------------------------------------
\* JavaScript values and Maps
\* ------------------------------------------------------------------------
EmptyMap == <<>>

MapHas(m, k) == k \in DOMAIN m

MapSet(m, k, v) == [x \in (DOMAIN m) \cup {k} |-> IF x = k THEN v ELSE m[x]]

MapDelete(m, k) == [x \in (DOMAIN m) \ {k} |-> m[x]]

\* {...a, ...b}
Spread(a, b) == [x \in (DOMAIN a) \cup (DOMAIN b) |-> IF x \in DOMAIN b THEN b[x] ELSE a[x]]

\* A value read from a parsed JSON body: undefined (field absent), null, or
\* a string.
Undefined == [t |-> "undefined", s |-> <<>>]
Null == [t |-> "null", s |-> <<>>]
Str(s) == [t |-> "string", s |-> s]

\* String(value ?? '')
ToText(value) == IF value.t \in {"undefined", "null"} THEN <<>> ELSE value.s

\* The characters \s and String.prototype.trim treat as white space: TAB, LF,
\* VT, FF, CR, SPACE, U+00A0, U+1680, U+FEFF (the first rows below, VT and the
\* last three as the characters themselves), U+2000 to U+200A, U+2028, U+2029,
\* U+202F, U+205F and U+3000 (written by their code points: a string of this
\* module cannot hold them).
WhiteSpace ==
    {"\t", "\n", "", "\f", "\r", " ", " ", " ", "﻿",
     "U+2000", "U+2001", "U+2002", "U+2003", "U+2004", "U+2005", "U+2006", "U+2007",
     "U+2008", "U+2009", "U+200A", "U+2028", "U+2029", "U+202F", "U+205F", "U+3000"}

\* ------------------------------------------------------------------------
\* Sanitizer and validator (pure)
\* ------------------------------------------------------------------------
RECURSIVE TrimStart(_)
\* The text without its leading white space.
TrimStart(s) == IF s # <<>> /\ Head(s) \in WhiteSpace THEN TrimStart(Tail(s)) ELSE s

RECURSIVE TrimEnd(_)
\* The text without its trailing white space.
TrimEnd(s) ==
    IF s # <<>> /\ s[Len(s)] \in WhiteSpace THEN TrimEnd(SubSeq(s, 1, Len(s) - 1)) ELSE s

\* String.prototype.trim
Trim(s) == TrimEnd(TrimStart(s))

\* .replace(/\s+/g, ' '): every maximal run of white space becomes one space
\* (its first character becomes the space, its other characters go).
CollapseWhiteSpace(s) ==
    LET marked == [i \in 1..Len(s) |->
                     IF s[i] \notin WhiteSpace THEN s[i]
                     ELSE IF i > 1 /\ s[i - 1] \in WhiteSpace THEN "" ELSE " "]
        Kept(c) == c # ""
    IN  SelectSeq(marked, Kept)

\* .slice(0, max) for max >= 0
Slice(s, max) == SubSeq(s, 1, IF max < Len(s) THEN max ELSE Len(s))

sanitizeText(value, max) == Slice(CollapseWhiteSpace(Trim(ToText(value))), max)

\* One or more characters, none of them white space or "@": [^\s@]+
NonSpaceNonAt(s) == s # <<>> /\ \A i \in 1..Len(s) : s[i] \notin WhiteSpace \cup {"@"}

\* /^[^\s@]+@[^\s@]+\.[^\s@]+$/.test(s)
emailRegex(s) ==
    \E i \in 1..Len(s) : \E j \in 1..Len(s) :
        /\ i < j
        /\ s[i] = "@"
        /\ s[j] = "."
        /\ NonSpaceNonAt(SubSeq(s, 1, i - 1))
        /\ NonSpaceNonAt(SubSeq(s, i + 1, j - 1))
        /\ NonSpaceNonAt(SubSeq(s, j + 1, Len(s)))

\* A parsed request body: JSON null, a JSON primitive (number, string,
\* boolean; truthy tells !body), or a JSON object with its fields.
JsonNull == [t |-> "null", truthy |-> FALSE, fields |-> EmptyMap]
JsonPrimitive(truthy) == [t |-> "primitive", truthy |-> truthy, fields |-> EmptyMap]
JsonObject(fields) == [t |-> "object", truthy |-> TRUE, fields |-> fields]

\* body.<name>
Field(body, name) == IF MapHas(body.fields, name) THEN body.fields[name] ELSE Undefined

validateBody(body) ==
    IF ~body.truthy \/ body.t # "object"
    THEN [ok |-> FALSE, error |-> "Invalid payload.", payload |-> EmptyMap]
    ELSE LET payload == [requestId |-> sanitizeText(Field(body, "requestId"), MaxRequestId),
                         name      |-> sanitizeText(Field(body, "name"), MaxName),
                         email     |-> sanitizeText(Field(body, "email"), MaxEmail),
                         subject   |-> sanitizeText(Field(body, "subject"), MaxSubject),
                         message   |-> sanitizeText(Field(body, "message"), MaxMessage),
                         timestamp |-> sanitizeText(Field(body, "timestamp"), MaxTimestamp)]
         IN  IF \/ payload.requestId = <<>> \/ payload.name = <<>> \/ payload.email = <<>>
                \/ payload.subject = <<>> \/ payload.message = <<>> \/ payload.timestamp = <<>>
             THEN [ok |-> FALSE, error |-> "Missing required fields.", payload |-> EmptyMap]
             ELSE IF ~emailRegex(payload.email)
                  THEN [ok |-> FALSE, error |-> "Invalid email.", payload |-> EmptyMap]
                  ELSE [ok |-> TRUE, error |-> "", payload |-> payload]

\* ------------------------------------------------------------------------
\* Responses, origin guard
\* ------------------------------------------------------------------------
\* A request header as headers.get returns it: null when absent.
NoHeader(empty) == [present |-> FALSE, value |-> empty]
Header(v) == [present |-> TRUE, value |-> v]

\* json(data, status, extraHeaders)
json(data, status, extraHeaders) ==
    [status  |-> status,
     body    |-> data,
     headers |-> Spread(("content-type" :> "application/json; charset=utf-8"), extraHeaders)]

RECURSIVE Split(_, _)
\* String.prototype.split(sep) for a one-character separator.
Split(s, sep) ==
    IF \A i \in 1..Len(s) : s[i] # sep THEN <<s>>
    ELSE LET i == CHOOSE k \in 1..Len(s) : s[k] = sep /\ \A m \in 1..(k - 1) : s[m] # sep
         IN  <<SubSeq(s, 1, i - 1)>> \o Split(SubSeq(s, i + 1, Len(s)), sep)

\* env.ALLOWED_ORIGINS of the deployment: "s1, s2 ,,"
ALLOWED_ORIGINS == <<"s", "1", ",", " ", "s", "2", " ", ",", ",">>

\* Mutant of getAllowedOrigins: the entries are not trimmed.
getAllowedOrigins_NoTrim(env) ==
    LET parts == Split(env, ",")
    IN  {parts[i] : i \in 1..Len(parts)} \ {<<>>}

\* The list of allowed origins: split on commas, trim, drop the empty ones.
getAllowedOrigins(env) ==
    LET parts == Split(env, ",")
    IN  {Trim(parts[i]) : i \in 1..Len(parts)} \ {<<>>}

allowedOrigin(origin, env) ==
    IF ~origin.present \/ origin.value = <<>> THEN FALSE
    ELSE origin.value \in getAllowedOrigins(env)

cors(origin) ==
    ("access-control-allow-origin" :> origin.value)
    @@ ("access-control-allow-methods" :> "POST, OPTIONS")
    @@ ("access-control-allow-headers" :> "content-type")
    @@ ("vary" :> "Origin")

\* ------------------------------------------------------------------------
\* Rate limiter and idempotency store
\* ------------------------------------------------------------------------
\* Mutant of rateLimited: the limit is compared with > instead of >=.
rateLimited_OffByOne(bucket, clientKey, now_) ==
    IF ~MapHas(bucket, clientKey) \/ now_ > bucket[clientKey].resetAt
    THEN [limited |-> FALSE,
          bucket  |-> MapSet(bucket, clientKey, [count |-> 1, resetAt |-> now_ + RATE_WINDOW_MS])]
    ELSE IF bucket[clientKey].count > RATE_MAX
         THEN [limited |-> TRUE, bucket |-> bucket]
         ELSE [limited |-> FALSE,
               bucket  |-> MapSet(bucket, clientKey,
                                  [count   |-> bucket[clientKey].count + 1,
                                   resetAt |-> bucket[clientKey].resetAt])]

\* Mutant of rateLimited: a request let through in a running window is not
\* counted.
rateLimited_NoIncrement(bucket, clientKey, now_) ==
    IF ~MapHas(bucket, clientKey) \/ now_ > bucket[clientKey].resetAt
    THEN [limited |-> FALSE,
          bucket  |-> MapSet(bucket, clientKey, [count |-> 1, resetAt |-> now_ + RATE_WINDOW_MS])]
    ELSE IF bucket[clientKey].count >= RATE_MAX
         THEN [limited |-> TRUE, bucket |-> bucket]
         ELSE [limited |-> FALSE, bucket |-> bucket]

\* Mutant of rateLimited: the window is over from resetAt on (>= for >).
rateLimited_ResetsAtBoundary(bucket, clientKey, now_) ==
    IF ~MapHas(bucket, clientKey) \/ now_ >= bucket[clientKey].resetAt
    THEN [limited |-> FALSE,
          bucket  |-> MapSet(bucket, clientKey, [count |-> 1, resetAt |-> now_ + RATE_WINDOW_MS])]
    ELSE IF bucket[clientKey].count >= RATE_MAX
         THEN [limited |-> TRUE, bucket |-> bucket]
         ELSE [limited |-> FALSE,
               bucket  |-> MapSet(bucket, clientKey,
                                  [count   |-> bucket[clientKey].count + 1,
                                   resetAt |-> bucket[clientKey].resetAt])]

\* Mutant of rateLimited: a rejected call restarts the window.
rateLimited_ExtendsOnReject(bucket, clientKey, now_) ==
    IF ~MapHas(bucket, clientKey) \/ now_ > bucket[clientKey].resetAt
    THEN [limited |-> FALSE,
          bucket  |-> MapSet(bucket, clientKey, [count |-> 1, resetAt |-> now_ + RATE_WINDOW_MS])]
    ELSE IF bucket[clientKey].count >= RATE_MAX
         THEN [limited |-> TRUE,
               bucket  |-> MapSet(bucket, clientKey,
                                  [count   |-> bucket[clientKey].count,
                                   resetAt |-> now_ + RATE_WINDOW_MS])]
         ELSE [limited |-> FALSE,
               bucket  |-> MapSet(bucket, clientKey,
                                  [count   |-> bucket[clientKey].count + 1,
                                   resetAt |-> bucket[clientKey].resetAt])]

\* Mutant of rateLimited: a rejected call is counted too.
rateLimited_CountsRejected(bucket, clientKey, now_) ==
    IF ~MapHas(bucket, clientKey) \/ now_ > bucket[clientKey].resetAt
    THEN [limited |-> FALSE,
          bucket  |-> MapSet(bucket, clientKey, [count |-> 1, resetAt |-> now_ + RATE_WINDOW_MS])]
    ELSE [limited |-> bucket[clientKey].count >= RATE_MAX,
          bucket  |-> MapSet(bucket, clientKey,
                             [count   |-> bucket[clientKey].count + 1,
                              resetAt |-> bucket[clientKey].resetAt])]

\* rateLimited(clientKey) at Date.now() = now: the result and the map after.
rateLimited(bucket, clientKey, now_) ==
    IF ~MapHas(bucket, clientKey) \/ now_ > bucket[clientKey].resetAt
    THEN [limited |-> FALSE,
          bucket  |-> MapSet(bucket, clientKey, [count |-> 1, resetAt |-> now_ + RATE_WINDOW_MS])]
    ELSE IF bucket[clientKey].count >= RATE_MAX
         THEN [limited |-> TRUE, bucket |-> bucket]
         ELSE [limited |-> FALSE,
               bucket  |-> MapSet(bucket, clientKey,
                                  [count   |-> bucket[clientKey].count + 1,
                                   resetAt |-> bucket[clientKey].resetAt])]

\* Mutant of getIdempotent: a record is expired from expiresAt on (>= for >).
getIdempotent_ExpiredAtBoundary(store, requestId, now_) ==
    IF ~MapHas(store, requestId) THEN [found |-> FALSE, store |-> store]
    ELSE IF now_ >= store[requestId].expiresAt
         THEN [found |-> FALSE, store |-> MapDelete(store, requestId)]
         ELSE [found |-> TRUE, store |-> store]

\* Mutant of getIdempotent: a lookup that finds its record expired removes
\* every expired record.
getIdempotent_PurgesExpired(store, requestId, now_) ==
    IF ~MapHas(store, requestId) THEN [found |-> FALSE, store |-> store]
    ELSE IF now_ > store[requestId].expiresAt
         THEN [found |-> FALSE,
               store |-> [x \in {y \in DOMAIN store : now_ <= store[y].expiresAt} |-> store[x]]]
         ELSE [found |-> TRUE, store |-> store]

\* getIdempotent(requestId) at Date.now() = now: whether a record is
\* returned, and the map after.
getIdempotent(store, requestId, now_) ==
    IF ~MapHas(store, requestId) THEN [found |-> FALSE, store |-> store]
    ELSE IF now_ > store[requestId].expiresAt
         THEN [found |-> FALSE, store |-> MapDelete(store, requestId)]
         ELSE [found |-> TRUE, store |-> store]

\* setIdempotent(requestId, data) at Date.now() = now: the map after.
setIdempotent(store, requestId, data, now_) ==
    MapSet(store, requestId, Spread(data, [expiresAt |-> now_ + IDEMPOTENCY_TTL_MS]))

\* ------------------------------------------------------------------------
\* The handler, one operator per synchronous segment of fetch
\* ------------------------------------------------------------------------
NoResponse == [status |-> 0, body |-> EmptyMap, headers |-> EmptyMap]

\* Mutant of clientKey: every request is counted under one key.
clientKey_OneKey(request) == "unknown"

\* request.headers.get('CF-Connecting-IP') || 'unknown'
clientKey(request) ==
    IF ~request.ip.present \/ request.ip.value = "" THEN "unknown" ELSE request.ip.value

\* Mutant of fetchUntilBody: the origin is checked before the method.
fetchUntilBody_OriginFirst(request, env, bucket, now_) ==
    IF request.path # "/contact"
    THEN [done |-> TRUE, response |-> json([error |-> "Not found."], 404, EmptyMap),
          bucket |-> bucket, limiterKey |-> {}]
    ELSE IF ~allowedOrigin(request.origin, env)
    THEN [done |-> TRUE, response |-> json([error |-> "Origin not allowed."], 403, EmptyMap),
          bucket |-> bucket, limiterKey |-> {}]
    ELSE IF request.method = "OPTIONS"
    THEN [done |-> TRUE,
          response |-> [status |-> 204, body |-> EmptyMap, headers |-> cors(request.origin)],
          bucket |-> bucket, limiterKey |-> {}]
    ELSE IF request.method # "POST"
    THEN [done |-> TRUE, response |-> json([error |-> "Method not allowed."], 405, EmptyMap),
          bucket |-> bucket, limiterKey |-> {}]
    ELSE LET ip == clientKey(request)
             rl == rateLimited(bucket, ip, now_)
         IN  IF rl.limited
             THEN [done |-> TRUE,
                   response |-> json([error |-> "Rate limit exceeded."], 429, cors(request.origin)),
                   bucket |-> rl.bucket, limiterKey |-> {ip}]
             ELSE [done |-> FALSE, response |-> NoResponse,
                   bucket |-> rl.bucket, limiterKey |-> {ip}]

\* fetch from its entry to the await of request.json(): done tells that the
\* handler returned `response`; limiterKey is the set of keys rateLimited
\* was called with (empty or one key).
fetchUntilBody(request, env, bucket, now_) ==
    IF request.path # "/contact"
    THEN [done |-> TRUE, response |-> json([error |-> "Not found."], 404, EmptyMap),
          bucket |-> bucket, limiterKey |-> {}]
    ELSE IF request.method = "OPTIONS"
    THEN IF ~allowedOrigin(request.origin, env)
         THEN [done |-> TRUE, response |-> json([error |-> "Origin not allowed."], 403, EmptyMap),
               bucket |-> bucket, limiterKey |-> {}]
         ELSE [done |-> TRUE,
               response |-> [status |-> 204, body |-> EmptyMap, headers |-> cors(request.origin)],
               bucket |-> bucket, limiterKey |-> {}]
    ELSE IF request.method # "POST"
    THEN [done |-> TRUE, response |-> json([error |-> "Method not allowed."], 405, EmptyMap),
          bucket |-> bucket, limiterKey |-> {}]
    ELSE IF ~allowedOrigin(request.origin, env)
    THEN [done |-> TRUE, response |-> json([error |-> "Origin not allowed."], 403, EmptyMap),
          bucket |-> bucket, limiterKey |-> {}]
    ELSE LET ip == clientKey(request)
             rl == rateLimited(bucket, ip, now_)
         IN  IF rl.limited
             THEN [done |-> TRUE,
                   response |-> json([error |-> "Rate limit exceeded."], 429, cors(request.origin)),
                   bucket |-> rl.bucket, limiterKey |-> {ip}]
             ELSE [done |-> FALSE, response |-> NoResponse,
                   bucket |-> rl.bucket, limiterKey |-> {ip}]

\* What request.json() settles with: a rejection when the body is not JSON,
\* the parsed value otherwise.
Unparsable == [parsed |-> FALSE, value |-> JsonNull]
Parsed(v) == [parsed |-> TRUE, value |-> v]

\* Mutant of fetchAfterBody: a duplicate writes the record again, with a new
\* expiry.
fetchAfterBody_RefreshesOnDuplicate(origin, read, store, now_) ==
    IF ~read.parsed
    THEN [done |-> TRUE, response |-> json([error |-> "Invalid JSON."], 400, cors(origin)),
          store |-> store, payload |-> EmptyMap]
    ELSE LET validated == validateBody(read.value)
         IN  IF ~validated.ok
             THEN [done |-> TRUE,
                   response |-> json([error |-> validated.error], 400, cors(origin)),
                   store |-> store, payload |-> EmptyMap]
             ELSE LET payload == validated.payload
                      existing == getIdempotent(store, payload.requestId, now_)
                  IN  IF existing.found
                      THEN [done |-> TRUE,
                            response |-> json([ok |-> TRUE, status |-> "duplicate",
                                               requestId |-> payload.requestId],
                                              200, cors(origin)),
                            store |-> setIdempotent(existing.store, payload.requestId,
                                                    [status |-> "accepted"], now_),
                            payload |-> EmptyMap]
                      ELSE [done |-> FALSE, response |-> NoResponse,
                            store |-> existing.store, payload |-> payload]

\* Mutant of fetchAfterBody: the upstream POST is issued without looking the
\* requestId up.
fetchAfterBody_SkipsLookup(origin, read, store, now_) ==
    IF ~read.parsed
    THEN [done |-> TRUE, response |-> json([error |-> "Invalid JSON."], 400, cors(origin)),
          store |-> store, payload |-> EmptyMap]
    ELSE LET validated == validateBody(read.value)
         IN  IF ~validated.ok
             THEN [done |-> TRUE,
                   response |-> json([error |-> validated.error], 400, cors(origin)),
                   store |-> store, payload |-> EmptyMap]
             ELSE [done |-> FALSE, response |-> NoResponse,
                   store |-> store, payload |-> validated.payload]

\* Mutant of fetchAfterBody: a record is written for the requestId before the
\* upstream POST is issued.
fetchAfterBody_ReservesRecord(origin, read, store, now_) ==
    IF ~read.parsed
    THEN [done |-> TRUE, response |-> json([error |-> "Invalid JSON."], 400, cors(origin)),
          store |-> store, payload |-> EmptyMap]
    ELSE LET validated == validateBody(read.value)
         IN  IF ~validated.ok
             THEN [done |-> TRUE,
                   response |-> json([error |-> validated.error], 400, cors(origin)),
                   store |-> store, payload |-> EmptyMap]
             ELSE LET payload == validated.payload
                      existing == getIdempotent(store, payload.requestId, now_)
                  IN  IF existing.found
                      THEN [done |-> TRUE,
                            response |-> json([ok |-> TRUE, status |-> "duplicate",
                                               requestId |-> payload.requestId],
                                              200, cors(origin)),
                            store |-> existing.store, payload |-> EmptyMap]
                      ELSE [done |-> FALSE, response |-> NoResponse,
                            store |-> setIdempotent(existing.store, payload.requestId,
                                                    [status |-> "pending"], now_),
                            payload |-> payload]

\* fetch from the settling of request.json() to the await of the upstream
\* fetch: done tells that the handler returned `response`; otherwise the
\* upstream POST of `payload` has been issued.
fetchAfterBody(origin, read, store, now_) ==
    IF ~read.parsed
    THEN [done |-> TRUE, response |-> json([error |-> "Invalid JSON."], 400, cors(origin)),
          store |-> store, payload |-> EmptyMap]
    ELSE LET validated == validateBody(read.value)
         IN  IF ~validated.ok
             THEN [done |-> TRUE,
                   response |-> json([error |-> validated.error], 400, cors(origin)),
                   store |-> store, payload |-> EmptyMap]
             ELSE LET payload == validated.payload
                      existing == getIdempotent(store, payload.requestId, now_)
                  IN  IF existing.found
                      THEN [done |-> TRUE,
                            response |-> json([ok |-> TRUE, status |-> "duplicate",
                                               requestId |-> payload.requestId],
                                              200, cors(origin)),
                            store |-> existing.store, payload |-> EmptyMap]
                      ELSE [done |-> FALSE, response |-> NoResponse,
                            store |-> existing.store, payload |-> payload]

\* How the upstream fetch settles: a response with upstream.ok, a response
\* without it, or a rejection (transport failure).
UpstreamOutcomes == {"ok", "not_ok", "throws"}

\* Mutant of fetchAfterUpstream: a response that is not ok is recorded too.
fetchAfterUpstream_RecordsFailure(origin, payload, outcome, store, now_) ==
    IF outcome = "throws"
    THEN [response |-> json([error |-> "Upstream transport failed.", retryable |-> TRUE],
                            502, cors(origin)),
          store |-> store]
    ELSE IF outcome # "ok"
    THEN [response |-> json([error |-> "Unable to process message.", retryable |-> TRUE],
                            502, cors(origin)),
          store |-> setIdempotent(store, payload.requestId, [status |-> "upstream_error"], now_)]
    ELSE [response |-> json([ok |-> TRUE, status |-> "accepted",
                             requestId |-> payload.requestId],
                            200, cors(origin)),
          store |-> setIdempotent(store, payload.requestId, [status |-> "accepted"], now_)]

\* fetch from the settling of the upstream fetch to its return.
fetchAfterUpstream(origin, payload, outcome, store, now_) ==
    IF outcome = "throws"
    THEN [response |-> json([error |-> "Upstream transport failed.", retryable |-> TRUE],
                            502, cors(origin)),
          store |-> store]
    ELSE IF outcome # "ok"
    THEN [response |-> json([error |-> "Unable to process message.", retryable |-> TRUE],
                            502, cors(origin)),
          store |-> store]
    ELSE [response |-> json([ok |-> TRUE, status |-> "accepted",
                             requestId |-> payload.requestId],
                            200, cors(origin)),
          store |-> setIdempotent(store, payload.requestId, [status |-> "accepted"], now_)]

\* ------------------------------------------------------------------------
\* Inputs
\* ------------------------------------------------------------------------
Site1 == <<"s", "1">>
Site2 == <<"s", "2">>

OriginHeaders ==
    {NoHeader(<<>>), Header(<<>>), Header(Site1), Header(Site2), Header(<<"s">>), Header(<<"e">>)}

IpHeaders == {NoHeader(""), Header(""), Header("10.0.0.1")}

Methods == {"POST", "OPTIONS", "GET"}

\* The requests the worker receives: every method, origin and client address
\* on /contact, and some on other paths.
Requests ==
    [path : {"/contact"}, method : Methods, origin : OriginHeaders, ip : IpHeaders]
    \cup [path : {"/", "/contact/"}, method : Methods,
          origin : {NoHeader(<<>>), Header(Site1)}, ip : {Header("10.0.0.1")}]

\* A well-formed submission with the given requestId and email texts.
Submission(requestId, email) ==
    [requestId |-> Str(requestId), name |-> Str(<<"n">>), email |-> Str(email),
     subject |-> Str(<<"s">>), message |-> Str(<<"m", " ", "\t", "m">>),
     timestamp |-> Str(<<"t">>)]

GoodEmail == <<"a", "@", "b", ".", "c">>

\* What request.json() can settle with.
BodyReads ==
    {Unparsable, Parsed(JsonNull), Parsed(JsonPrimitive(TRUE)), Parsed(JsonPrimitive(FALSE)),
     Parsed(JsonObject(EmptyMap))}
    \cup {Parsed(JsonObject(Submission(id, GoodEmail))) :
            id \in {<<"x">>, <<"\r", "x", "\t">>, <<"y">>}}
    \cup {Parsed(JsonObject(Submission(<<"x">>, e))) :
            e \in {<<"a", "b">>, <<"a", "@", "b">>, <<"@", "b", ".", "c">>, <<"a", "@", "b", ".">>}}
    \cup {Parsed(JsonObject([Submission(<<"x">>, GoodEmail) EXCEPT !.message = v])) :
            v \in {Null, Undefined, Str(<<" ", "\n", "\r">>)}}
    \cup {Parsed(JsonObject([Submission(<<"x">>, GoodEmail) EXCEPT !.requestId = Str(<<>>)]))}

\* The clock advances by one millisecond, one rate window or one TTL.
ClockSteps == {1, RATE_WINDOW_MS, IDEMPOTENCY_TTL_MS}

\* ------------------------------------------------------------------------
\* State
\* ------------------------------------------------------------------------
VARIABLES
    now,               \* Date.now()
    ticks,             \* number of clock advances so far
    received,          \* number of requests received so far
    rateBucket,        \* Map clientKey -> {count, resetAt}
    idempotencyStore,  \* Map requestId -> {status, expiresAt}
    pc,                \* per request slot: "idle", "body" (awaiting request.json()),
                       \* "upstream" (awaiting the upstream fetch)
    origin,            \* per slot: the Origin header of the request in flight
    payload,           \* per slot: the payload POSTed upstream, while awaited
    response,          \* the response returned by the last step, with the slot that
                       \* returned it (NotReturned when the last step returned none)
    window,            \* history: per client key, start of its current window and
                       \* the limiter calls made in it (counted up to RATE_MAX + 1)
    lastAccept,        \* history: per requestId, when upstream last accepted it
    idemDelta,         \* history, per slot: what the request in flight has changed in
                       \* idempotencyStore
    passedAt,          \* history, for the clients a specification logs: per client key,
                       \* the instants of the last calls the limiter let through
    atStart,           \* history, for the requests a specification tracks: per slot,
                       \* the clock and the two maps as they were when the request
                       \* entered the handler
    san,               \* the sanitizer applied on its own: input, maximum, results
    val                \* the validator applied on its own: body and result

vars == <<now, ticks, received, rateBucket, idempotencyStore, pc, origin, payload, response,
          window, lastAccept, idemDelta, passedAt, atStart, san, val>>

Reqs == 1..NumReq

\* No response: the step was not the return of a handler.
NotReturned == Spread(NoResponse, [req |-> 0])

SanIdle == [value |-> Undefined, max |-> 0, once |-> <<>>, twice |-> <<>>, step |-> 0]

ValIdle == [body |-> JsonNull, result |-> [ok |-> FALSE, error |-> "", payload |-> EmptyMap],
            step |-> 0]

InitWorker ==
    /\ now = 0
    /\ ticks = 0
    /\ received = 0
    /\ rateBucket = EmptyMap
    /\ idempotencyStore = EmptyMap
    /\ pc = [r \in Reqs |-> "idle"]
    /\ origin = [r \in Reqs |-> NoHeader(<<>>)]
    /\ payload = [r \in Reqs |-> EmptyMap]
    /\ response = NotReturned
    /\ window = EmptyMap
    /\ lastAccept = EmptyMap
    /\ idemDelta = [r \in Reqs |-> {}]
    /\ passedAt = EmptyMap
    /\ atStart = [r \in Reqs |-> [now |-> 0, rateBucket |-> EmptyMap,
                                  idempotencyStore |-> EmptyMap]]

Init == InitWorker /\ san = SanIdle /\ val = ValIdle

\* ------------------------------------------------------------------------
\* History bookkeeping
\* ------------------------------------------------------------------------
\* The window of a client key after one more limiter call at time t: a call
\* made more than RATE_WINDOW_MS after the window's first call starts a new one.
WindowAfterCall(w, k, t) ==
    IF ~MapHas(w, k) \/ t > w[k].start + RATE_WINDOW_MS
    THEN MapSet(w, k, [start |-> t, calls |-> 1])
    ELSE MapSet(w, k, [start |-> w[k].start,
                       calls |-> IF w[k].calls > RATE_MAX THEN w[k].calls ELSE w[k].calls + 1])

\* The difference between two contents of idempotencyStore at time t: for
\* each key that changed, whether a record was written, an expired record
\* removed or a live record removed.
IdemDiff(old, new, t) ==
    {[id |-> i,
      kind |-> IF MapHas(new, i) THEN "written"
               ELSE IF t > old[i].expiresAt THEN "expired_removed" ELSE "live_removed"] :
        i \in {j \in (DOMAIN old) \cup (DOMAIN new) :
                 \/ MapHas(old, j) # MapHas(new, j)
                 \/ (MapHas(old, j) /\ MapHas(new, j) /\ old[j] # new[j])}}

\* ------------------------------------------------------------------------
\* Actions
\* ------------------------------------------------------------------------
\* The handler is entered with a request and runs to its first await or to
\* its response.  (The counter of received requests and the histories passedAt
\* and atStart are set by the actions that use this one.)
Arrive(r, request) ==
    /\ pc[r] = "idle"
    /\ \A q \in Reqs : q < r => pc[q] # "idle"
    /\ LET res == fetchUntilBody(request, ALLOWED_ORIGINS, rateBucket, now)
       IN  /\ rateBucket' = res.bucket
           /\ pc' = [pc EXCEPT ![r] = IF res.done THEN "idle" ELSE "body"]
           /\ origin' = [origin EXCEPT ![r] = IF res.done THEN NoHeader(<<>>) ELSE request.origin]
           /\ response' = IF res.done THEN Spread(res.response, [req |-> r]) ELSE NotReturned
           /\ window' = IF res.limiterKey = {} THEN window
                        ELSE WindowAfterCall(window, CHOOSE k \in res.limiterKey : TRUE, now)
    /\ UNCHANGED <<now, ticks, idempotencyStore, payload, lastAccept, idemDelta, san, val>>

\* request.json() settles: the handler runs to the upstream fetch or to its
\* response.
BodyRead(r, read) ==
    /\ pc[r] = "body"
    /\ LET res == fetchAfterBody(origin[r], read, idempotencyStore, now)
       IN  /\ idempotencyStore' = res.store
           /\ pc' = [pc EXCEPT ![r] = IF res.done THEN "idle" ELSE "upstream"]
           /\ origin' = [origin EXCEPT ![r] = IF res.done THEN NoHeader(<<>>) ELSE @]
           /\ payload' = [payload EXCEPT ![r] = res.payload]
           /\ response' = IF res.done THEN Spread(res.response, [req |-> r]) ELSE NotReturned
           /\ idemDelta' = [idemDelta EXCEPT ![r] =
                               IF res.done THEN {}
                               ELSE IdemDiff(idempotencyStore, res.store, now)]
    /\ UNCHANGED <<now, ticks, received, rateBucket, window, lastAccept, passedAt, atStart,
                   san, val>>

\* Mutant of UpstreamDone: after a transport exception the handler reads the
\* body and dispatches again.
UpstreamDone_Retries(r, outcome) ==
    /\ pc[r] = "upstream"
    /\ LET res == fetchAfterUpstream(origin[r], payload[r], outcome, idempotencyStore, now)
       IN  /\ idempotencyStore' = res.store
           /\ response' = IF outcome = "throws" THEN NotReturned
                          ELSE Spread(res.response, [req |-> r])
    /\ pc' = [pc EXCEPT ![r] = IF outcome = "throws" THEN "body" ELSE "idle"]
    /\ origin' = [origin EXCEPT ![r] = IF outcome = "throws" THEN @ ELSE NoHeader(<<>>)]
    /\ payload' = [payload EXCEPT ![r] = EmptyMap]
    /\ idemDelta' = [idemDelta EXCEPT ![r] = {}]
    /\ lastAccept' = IF outcome = "ok" THEN MapSet(lastAccept, payload[r].requestId, now)
                     ELSE lastAccept
    /\ UNCHANGED <<now, ticks, received, rateBucket, window, passedAt, atStart, san, val>>

\* The upstream fetch settles: the handler runs to its response.
UpstreamDone(r, outcome) ==
    /\ pc[r] = "upstream"
    /\ LET res == fetchAfterUpstream(origin[r], payload[r], outcome, idempotencyStore, now)
       IN  /\ idempotencyStore' = res.store
           /\ response' = Spread(res.response, [req |-> r])
    /\ pc' = [pc EXCEPT ![r] = "idle"]
    /\ origin' = [origin EXCEPT ![r] = NoHeader(<<>>)]
    /\ payload' = [payload EXCEPT ![r] = EmptyMap]
    /\ idemDelta' = [idemDelta EXCEPT ![r] = {}]
    /\ lastAccept' = IF outcome = "ok" THEN MapSet(lastAccept, payload[r].requestId, now)
                     ELSE lastAccept
    /\ UNCHANGED <<now, ticks, received, rateBucket, window, passedAt, atStart, san, val>>

\* Time passes.  The clock is read only by the handler and only compared with
\* instants it stored before, so it starts running at the first stored instant.
Tick(d) ==
    /\ ticks < MaxTicks
    /\ rateBucket # EmptyMap
    /\ now' = now + d
    /\ ticks' = ticks + 1
    /\ response' = NotReturned
    /\ UNCHANGED <<received, rateBucket, idempotencyStore, pc, origin, payload,
                   window, lastAccept, idemDelta, passedAt, atStart, san, val>>

\* The worker receives one more request.
Receive(r, request) ==
    /\ received < MaxReceived
    /\ received' = received + 1
    /\ Arrive(r, request)
    /\ UNCHANGED <<passedAt, atStart>>

Next ==
    \/ \E r \in Reqs : \E request \in Requests : Receive(r, request)
    \/ \E r \in Reqs : \E read \in BodyReads : BodyRead(r, read)
    \/ \E r \in Reqs : \E outcome \in UpstreamOutcomes : UpstreamDone(r, outcome)
    \/ \E d \in ClockSteps : Tick(d)

\* The whole worker: any request, any body, any upstream outcome, requests
\* interleaved at their awaits; MaxReceived requests.
Spec == Init /\ [][Next]_vars

\* The whole worker when every body read and every upstream call settles:
\* a request that awaits request.json() or the upstream fetch is resumed.
SpecLive ==
    /\ Init
    /\ [][Next]_vars
    /\ \A r \in Reqs : WF_vars(\E read \in BodyReads : BodyRead(r, read))
    /\ \A r \in Reqs : WF_vars(\E outcome \in UpstreamOutcomes : UpstreamDone(r, outcome))

\* A request of a stream the model does not count.
Admit(r, request) == Arrive(r, request) /\ UNCHANGED <<received, passedAt, atStart>>

\* One request at a time: a request is received when no other is in flight.
AdmitAlone(r, request) == (\A q \in Reqs : pc[q] = "idle") /\ Admit(r, request)

\* One client submitting and resubmitting: POST /contact from an allowed
\* origin without client address header, well-formed bodies, one request at a
\* time.
RetryRequests ==
    {q \in Requests : q.path = "/contact" /\ q.method = "POST"
                      /\ q.origin = Header(Site1) /\ ~q.ip.present}

RetryReads ==
    {Parsed(JsonObject(Submission(id, GoodEmail))) : id \in {<<"x">>, <<"\r", "x", "\t">>, <<"y">>}}

NextRetry ==
    \/ \E r \in Reqs : \E request \in RetryRequests : AdmitAlone(r, request)
    \/ \E r \in Reqs : \E read \in RetryReads : BodyRead(r, read)
    \/ \E r \in Reqs : \E outcome \in UpstreamOutcomes : UpstreamDone(r, outcome)
    \/ \E d \in ClockSteps : Tick(d)

SpecRetry == Init /\ [][NextRetry]_vars

\* Clients exercising the rate limiter: POST /contact from an allowed origin,
\* with and without client address, bodies that are not JSON.
RateRequests ==
    {q \in Requests : q.path = "/contact" /\ q.method = "POST" /\ q.origin = Header(Site2)}

NextRate ==
    \/ \E r \in Reqs : \E request \in RateRequests : Admit(r, request)
    \/ \E r \in Reqs : BodyRead(r, Unparsable)
    \/ \E d \in ClockSteps : Tick(d)

SpecRate == Init /\ [][NextRate]_vars

\* The log of a client key after the limiter let a call through at time t:
\* the instants of its last 2 * RATE_MAX + 1 such calls, oldest first.
LogAfterPass(log, k, t) ==
    LET all == Append(IF MapHas(log, k) THEN log[k] ELSE <<>>, t)
    IN  MapSet(log, k, IF Len(all) > 2 * RATE_MAX + 1 THEN Tail(all) ELSE all)

\* A request of a stream whose calls to the limiter are logged.
AdmitLogged(r, request) ==
    /\ Arrive(r, request)
    /\ passedAt' = IF pc'[r] = "body" THEN LogAfterPass(passedAt, clientKey(request), now)
                   ELSE passedAt
    /\ UNCHANGED <<received, atStart>>

\* One client exercising the rate limiter: the requests of RateRequests that
\* carry no client address.
BurstRequests == {q \in RateRequests : clientKey(q) = "unknown"}

\* The traffic of one client, with the calls the limiter lets through logged.
NextBurst ==
    \/ \E r \in Reqs : \E request \in BurstRequests : AdmitLogged(r, request)
    \/ \E r \in Reqs : BodyRead(r, Unparsable)
    \/ \E d \in ClockSteps : Tick(d)

SpecBurst == Init /\ [][NextBurst]_vars

\* The mark left in `response` by a request that ended without one.
Aborted(r) == Spread(NoResponse, [req |-> r])

\* The transport aborts the request in slot r while the handler awaits
\* request.json() or the upstream fetch: the handler is never resumed.
Abort(r) ==
    /\ pc[r] \in {"body", "upstream"}
    /\ pc' = [pc EXCEPT ![r] = "idle"]
    /\ origin' = [origin EXCEPT ![r] = NoHeader(<<>>)]
    /\ payload' = [payload EXCEPT ![r] = EmptyMap]
    /\ idemDelta' = [idemDelta EXCEPT ![r] = {}]
    /\ response' = Aborted(r)
    /\ UNCHANGED <<now, ticks, received, rateBucket, idempotencyStore, window, lastAccept,
                   passedAt, atStart, san, val>>

\* A request received when no other is in flight, with the clock and the two
\* maps noted as it finds them.
AdmitTracked(r, request) ==
    /\ \A q \in Reqs : pc[q] = "idle"
    /\ Arrive(r, request)
    /\ atStart' = [atStart EXCEPT ![r] = [now |-> now, rateBucket |-> rateBucket,
                                          idempotencyStore |-> idempotencyStore]]
    /\ UNCHANGED <<received, passedAt>>

\* The traffic of SpecRetry, with requests that the transport may abort.
NextAbort ==
    \/ \E r \in Reqs : \E request \in RetryRequests : AdmitTracked(r, request)
    \/ \E r \in Reqs : \E read \in RetryReads : BodyRead(r, read)
    \/ \E r \in Reqs : \E outcome \in UpstreamOutcomes : UpstreamDone(r, outcome)
    \/ \E r \in Reqs : Abort(r)
    \/ \E d \in ClockSteps : Tick(d)

SpecAbort == Init /\ [][NextAbort]_vars

\* The traffic of SpecRetry, with the instant each submission arrives noted.
NextReplay ==
    \/ \E r \in Reqs : \E request \in RetryRequests : AdmitTracked(r, request)
    \/ \E r \in Reqs : \E read \in RetryReads : BodyRead(r, read)
    \/ \E r \in Reqs : \E outcome \in UpstreamOutcomes : UpstreamDone(r, outcome)
    \/ \E d \in ClockSteps : Tick(d)

SpecReplay == Init /\ [][NextReplay]_vars

\* Requests to /contact that reach the origin check: POST and OPTIONS with
\* every Origin header, from one client.
GateRequests ==
    {q \in Requests : q.path = "/contact" /\ q.method \in {"POST", "OPTIONS"} /\ ~q.ip.present}

\* A body that is not JSON, one without fields and a well-formed submission.
GateReads ==
    {Unparsable, Parsed(JsonObject(EmptyMap)), Parsed(JsonObject(Submission(<<"x">>, GoodEmail)))}

\* Any number of requests from one client, interleaved at their awaits, with
\* every Origin header; the clock advances by rate windows.
NextGate ==
    \/ \E r \in Reqs : \E request \in GateRequests : Admit(r, request)
    \/ \E r \in Reqs : \E read \in GateReads : BodyRead(r, read)
    \/ \E r \in Reqs : \E outcome \in UpstreamOutcomes : UpstreamDone(r, outcome)
    \/ Tick(RATE_WINDOW_MS)

SpecGate == Init /\ [][NextGate]_vars

\* Requests that end on each failure path: another path, another method, an
\* unlisted origin, and POST /contact from a listed origin with and without
\* client address.
FailRequests ==
    {q \in Requests :
        \/ q.path = "/" /\ q.method = "POST" /\ q.origin = Header(Site1)
        \/ /\ q.path = "/contact" /\ ~q.ip.present
           /\ <<q.method, q.origin>> \in {<<"GET", Header(Site1)>>, <<"POST", Header(<<"e">>)>>}
        \/ /\ q.path = "/contact" /\ q.method = "POST" /\ q.origin = Header(Site1)
           /\ q.ip \in {NoHeader(""), Header("10.0.0.1")}}

\* Any number of requests from two clients, interleaved at their awaits, over
\* every failure path and the successful one; the clock advances by TTLs.
NextFail ==
    \/ \E r \in Reqs : \E request \in FailRequests : Admit(r, request)
    \/ \E r \in Reqs : \E read \in GateReads : BodyRead(r, read)
    \/ \E r \in Reqs : \E outcome \in UpstreamOutcomes : UpstreamDone(r, outcome)
    \/ Tick(IDEMPOTENCY_TTL_MS)

SpecFail == Init /\ [][NextFail]_vars

\* ------------------------------------------------------------------------
\* The sanitizer on its own
\* ------------------------------------------------------------------------
SanChars == {" ", "\t", "\r", "a", "b"}

\* Every text of at most MaxLen characters, and the two absent values.
SanValues ==
    {Undefined, Null} \cup {Str(s) : s \in UNION {[1..n -> SanChars] : n \in 0..MaxLen}}

InitSan ==
    /\ InitWorker
    /\ san \in {[value |-> v, max |-> n, once |-> <<>>, twice |-> <<>>, step |-> 0] :
                  v \in SanValues, n \in 0..MaxLen}
    /\ val = ValIdle

\* sanitizeText(value, max)
SanitizeOnce ==
    /\ san.step = 0
    /\ san' = [san EXCEPT !.once = sanitizeText(san.value, san.max), !.step = 1]
    /\ UNCHANGED <<now, ticks, received, rateBucket, idempotencyStore, pc, origin, payload,
                   response, window, lastAccept, idemDelta, passedAt, atStart, val>>

\* sanitizeText(sanitizeText(value, max), max)
SanitizeAgain ==
    /\ san.step = 1
    /\ san' = [san EXCEPT !.twice = sanitizeText(Str(san.once), san.max), !.step = 2]
    /\ UNCHANGED <<now, ticks, received, rateBucket, idempotencyStore, pc, origin, payload,
                   response, window, lastAccept, idemDelta, passedAt, atStart, val>>

NextSan == SanitizeOnce \/ SanitizeAgain

SpecSan == InitSan /\ [][NextSan]_vars

\* ------------------------------------------------------------------------
\* The validator on its own
\* ------------------------------------------------------------------------
\* A text of n characters without white space.
Pad(n) == [i \in 1..n |-> "a"]

\* Texts submitted for a field whose maximum is max: short, with white space
\* to trim and collapse, only white space, of max and of max + 1 characters,
\* and with a space as character number max.
FieldTexts(max) ==
    {<<"v">>, <<"\f", "v", " ", "U+2028", "w", "\r", "\n">>, <<" ", "\t">>, Pad(max), Pad(max + 1),
     Pad(max - 1) \o <<" ", "b">>}

\* Addresses submitted as email: well and ill shaped, and ones cut at MaxEmail.
EmailTexts ==
    {GoodEmail, <<" ", "a", "@", "b", ".", "c", " ">>, <<"a", " ", "@", "b", ".", "c">>,
     <<"a", "\r", "@", "b", ".", "c">>, <<"a", "@", "b", ".", "c", "\f">>,
     <<"a", "@", "b">>, <<"a", "@", "@", "b", ".", "c">>, <<" ">>,
     Pad(MaxEmail - 4) \o <<"@", "b", ".", "c">>,
     Pad(MaxEmail - 3) \o <<"@", "b", ".", "c">>,
     Pad(MaxEmail - 5) \o <<"@", "b", ".", "c", " ", "d">>}

FieldValues(texts) == {Undefined, Null} \cup {Str(t) : t \in texts}

\* The bodies given to the validator: the values that are no objects, and
\* well-formed submissions with one field, or requestId and another field,
\* replaced.
ValBodies ==
    LET base == Submission(<<"x">>, GoodEmail)
        ids == FieldValues(FieldTexts(MaxRequestId))
    IN  {JsonNull, JsonPrimitive(TRUE), JsonPrimitive(FALSE), JsonObject(EmptyMap)}
        \cup {JsonObject([base EXCEPT !.requestId = i, !.name = v]) :
                i \in ids, v \in FieldValues(FieldTexts(MaxName))}
        \cup {JsonObject([base EXCEPT !.requestId = i, !.email = v]) :
                i \in ids, v \in FieldValues(EmailTexts)}
        \cup {JsonObject([base EXCEPT !.subject = v]) : v \in FieldValues(FieldTexts(MaxSubject))}
        \cup {JsonObject([base EXCEPT !.message = v]) : v \in FieldValues(FieldTexts(MaxMessage))}
        \cup {JsonObject([base EXCEPT !.timestamp = v]) :
                v \in FieldValues(FieldTexts(MaxTimestamp))}

InitVal ==
    /\ InitWorker
    /\ san = SanIdle
    /\ val \in {[body |-> b, result |-> ValIdle.result, step |-> 0] : b \in ValBodies}

\* validateBody(body)
Validate ==
    /\ val.step = 0
    /\ val' = [val EXCEPT !.result = validateBody(val.body), !.step = 1]
    /\ UNCHANGED <<now, ticks, received, rateBucket, idempotencyStore, pc, origin, payload,
                   response, window, lastAccept, idemDelta, passedAt, atStart, san>>

NextVal == Validate

SpecVal == InitVal /\ [][NextVal]_vars

\* ------------------------------------------------------------------------
\* Vocabulary of the properties
\* ------------------------------------------------------------------------
\* The entries of the allow-list the deployment configures.
AllowList == {Site1, Site2}

\* The request carries an Origin header equal to an entry of the allow-list.
OriginListed(q) == q.origin.present /\ q.origin.value \in AllowList

\* The client key of a request: its CF-Connecting-IP header, "unknown" without.
KeyOf(q) == IF q.ip.present /\ q.ip.value # "" THEN q.ip.value ELSE "unknown"

\* The response returned by the step carries the CORS headers for origin o.
CorsFor(resp, o) ==
    /\ MapHas(resp.headers, "access-control-allow-origin")
    /\ resp.headers["access-control-allow-origin"] = o

\* The response carries no CORS header.
NoCors(resp) ==
    \A h \in {"access-control-allow-origin", "access-control-allow-methods",
              "access-control-allow-headers"} : ~MapHas(resp.headers, h)

\* No upstream POST is in flight for slot r after the step that was not before.
NoUpstreamCall == \A r \in Reqs : pc'[r] = "upstream" => pc[r] = "upstream"

\* The requestId a parsed body is submitted under.
RequestIdOf(read) == validateBody(read.value).payload.requestId

ValidReads == {read \in BodyReads : read.parsed /\ validateBody(read.value).ok}

\* ------------------------------------------------------------------------
\* C9  Routing and method precedence
\* ------------------------------------------------------------------------
\* C9: a request to a path other than /contact is answered 404 whatever its
\* method and origin; a request to /contact with a method other than POST and
\* OPTIONS is answered 405 whatever its origin; neither changes the rate
\* buckets or the idempotency store, nor calls upstream.
C9_RoutingPrecedence ==
    [][\A r \in Reqs : \A q \in Requests :
          Arrive(r, q) =>
            /\ q.path # "/contact" =>
                 /\ response'.req = r /\ response'.status = 404
                 /\ response'.body = [error |-> "Not found."]
                 /\ UNCHANGED <<rateBucket, idempotencyStore>> /\ NoUpstreamCall
            /\ (q.path = "/contact" /\ q.method \notin {"POST", "OPTIONS"}) =>
                 /\ response'.req = r /\ response'.status = 405
                 /\ response'.body = [error |-> "Method not allowed."]
                 /\ UNCHANGED <<rateBucket, idempotencyStore>> /\ NoUpstreamCall
      ]_vars

\* A 405 has been returned while a rate bucket exists.
C9_Witness ==
    /\ response.status = 405
    /\ rateBucket # EmptyMap

\* ------------------------------------------------------------------------
\* C8  Origin gating
\* ------------------------------------------------------------------------
\* C8: a POST or OPTIONS to /contact whose Origin is absent or not an entry of
\* the allow-list is answered 403 without CORS headers, consumes no rate-limit
\* slot, does not touch the idempotency store and calls nothing upstream; one
\* whose Origin is an entry is only ever answered 204, 429, 400, 200 or 502,
\* with access-control-allow-origin equal to its Origin.
C8_OriginGating ==
    [][/\ \A r \in Reqs : \A q \in Requests :
            (Arrive(r, q) /\ q.path = "/contact" /\ q.method \in {"POST", "OPTIONS"}) =>
               IF ~OriginListed(q)
               THEN /\ response'.req = r /\ response'.status = 403
                    /\ NoCors(response')
                    /\ UNCHANGED <<rateBucket, idempotencyStore>> /\ NoUpstreamCall
               ELSE \/ /\ response' = NotReturned
                       /\ pc'[r] = "body" /\ origin'[r] = q.origin
                    \/ /\ response'.req = r
                       /\ response'.status = IF q.method = "OPTIONS" THEN 204 ELSE 429
                       /\ CorsFor(response', q.origin.value)
       /\ \A r \in Reqs :
            (pc[r] # "idle" /\ response'.req = r /\ response' # response) =>
               /\ response'.status \in {400, 200, 502}
               /\ CorsFor(response', origin[r].value)
               /\ origin[r].value \in AllowList
      ]_vars

\* A request from the second entry of the allow-list has been answered 429
\* with that origin, while a submission from the first entry awaits upstream
\* and a record of an accepted one exists.
C8_Witness ==
    /\ response.status = 429
    /\ CorsFor(response, Site2)
    /\ \E r \in Reqs : pc[r] = "upstream" /\ origin[r] = Header(Site1)
    /\ idempotencyStore # EmptyMap

\* ------------------------------------------------------------------------
\* C7  One rate-limit slot per admitted request
\* ------------------------------------------------------------------------
\* C7: a POST to /contact from a listed origin that the limiter lets through
\* takes exactly one slot of its client key when it enters the handler (the
\* count goes up by one, or restarts at 1), the buckets of the other keys stay
\* as they are, and nothing the request does after its body is read or its
\* upstream call settles changes any bucket.
C7_OneSlotPerRequest ==
    [][/\ \A r \in Reqs : \A q \in Requests :
            (q.path = "/contact" /\ q.method = "POST" /\ OriginListed(q) /\ Arrive(r, q)) =>
               LET k == KeyOf(q)
                   fresh == ~MapHas(rateBucket, k) \/ now > rateBucket[k].resetAt
               IN  /\ \A j \in (DOMAIN rateBucket) \ {k} :
                         MapHas(rateBucket', j) /\ rateBucket'[j] = rateBucket[j]
                   /\ \/ /\ response'.req = r /\ response'.status = 429
                         /\ rateBucket' = rateBucket
                      \/ /\ pc'[r] = "body"
                         /\ DOMAIN rateBucket' = (DOMAIN rateBucket) \cup {k}
                         /\ rateBucket'[k].count = IF fresh THEN 1 ELSE rateBucket[k].count + 1
       /\ \A r \in Reqs : (pc[r] # "idle" /\ pc'[r] # pc[r]) => rateBucket' = rateBucket
      ]_vars

\* A submission with a missing field has been answered 400 and the bucket of
\* a client counts two requests.
C7_Witness ==
    /\ response.status = 400
    /\ response.body.error = "Missing required fields."
    /\ \E k \in DOMAIN rateBucket : rateBucket[k].count = 2

\* ------------------------------------------------------------------------
\* C6  Failure paths and shared state
\* ------------------------------------------------------------------------
FailureStatuses == {404, 405, 403, 429, 400, 502}

\* Entering the handler changes at most the bucket of the request's client key
\* (a step that changes neither map satisfies this whatever request it is of).
ArriveFrame ==
    \/ UNCHANGED <<rateBucket, idempotencyStore>>
    \/ \A r \in Reqs : \A q \in Requests :
          Arrive(r, q) =>
             /\ idempotencyStore' = idempotencyStore
             /\ \A j \in (DOMAIN rateBucket) \ {KeyOf(q)} :
                   MapHas(rateBucket', j) /\ rateBucket'[j] = rateBucket[j]
             /\ DOMAIN rateBucket' \subseteq (DOMAIN rateBucket) \cup {KeyOf(q)}

\* C6 as stated: a request answered 404, 405, 403, 429, 400 or 502 has left
\* the idempotency store as it found it, and has changed no rate bucket but
\* that of its client.
C6_StoreEqualAfterFailure ==
    [][/\ ArriveFrame
       /\ \A r \in Reqs :
            (response'.req = r /\ response'.status \in FailureStatuses) =>
               /\ idempotencyStore' = idempotencyStore
               /\ rateBucket' = rateBucket
               /\ idemDelta[r] = {}
      ]_vars

\* C6 as amended: a request answered 404, 405, 403, 429, 400 or 502 has written
\* no idempotency record and removed no live one; the one change it can have
\* made to the store is the removal of the already expired record of its own
\* requestId; it has changed no rate bucket but that of its client.
C6_StoreAfterFailure ==
    [][/\ ArriveFrame
       /\ \A r \in Reqs :
            (response'.req = r /\ response'.status \in FailureStatuses) =>
               /\ idempotencyStore' = idempotencyStore
               /\ rateBucket' = rateBucket
               /\ IF pc[r] = "upstream"
                  THEN idemDelta[r] \subseteq
                          {[id |-> payload[r].requestId, kind |-> "expired_removed"]}
                  ELSE idemDelta[r] = {}
      ]_vars

\* A 502 has been returned to a request whose lookup had removed the expired
\* record of an earlier acceptance, in a window in which a client has been
\* answered 429 while another client has a bucket.
C6_Witness ==
    /\ response.status = 502
    /\ \E id \in DOMAIN lastAccept :
          /\ ~MapHas(idempotencyStore, id)
          /\ now > lastAccept[id] + 600000
    /\ \E k \in DOMAIN window :
          /\ window[k].calls = 6
          /\ now <= window[k].start + 60000
          /\ (DOMAIN rateBucket) \ {k} # {}

\* ------------------------------------------------------------------------
\* C5  Upstream failure
\* ------------------------------------------------------------------------
\* C5: when the upstream POST of a request settles without success (a response
\* that is not ok, or a transport exception) the request is answered 502 with
\* retryable true and the CORS headers of its origin, and the idempotency store
\* stays as it is; a submission is answered "duplicate" only when upstream
\* accepted its requestId at most 600000 ms earlier, so one that follows a
\* failure is dispatched again.
C5_UpstreamFailure ==
    [][/\ \A r \in Reqs : \A outcome \in {"not_ok", "throws"} :
            (pc[r] = "upstream" /\ UpstreamDone(r, outcome)) =>
               /\ response'.req = r /\ response'.status = 502
               /\ response'.body.retryable = TRUE
               /\ CorsFor(response', origin[r].value)
               /\ idempotencyStore' = idempotencyStore
       /\ \A r \in Reqs : \A read \in ValidReads :
            (pc[r] = "body" /\ BodyRead(r, read)) =>
               \/ pc'[r] = "upstream" /\ payload'[r].requestId = RequestIdOf(read)
               \/ /\ response'.status = 200 /\ response'.body.status = "duplicate"
                  /\ MapHas(lastAccept, RequestIdOf(read))
                  /\ now <= lastAccept[RequestIdOf(read)] + 600000
      ]_vars

\* A transport failure has been answered 502 retryable and no record exists.
C5_Witness ==
    /\ response.status = 502
    /\ response.body = [error |-> "Upstream transport failed.", retryable |-> TRUE]
    /\ CorsFor(response, Site1)
    /\ idempotencyStore = EmptyMap

\* ------------------------------------------------------------------------
\* C3, C4  Concurrent submissions of one requestId
\* ------------------------------------------------------------------------
\* C3: upstream accepts a POST carrying a requestId only if it accepted none
\* carrying that requestId during the 600000 ms before.
C3_OneAcceptedForward ==
    [][\A r \in Reqs :
          (pc[r] = "upstream" /\ UpstreamDone(r, "ok")) =>
             \/ ~MapHas(lastAccept, payload[r].requestId)
             \/ now > lastAccept[payload[r].requestId] + 600000
      ]_vars

\* C4: a record of the idempotency store that has not expired is neither
\* changed nor written again (setIdempotent is not called for its requestId).
C4_NoOverwriteWithinTtl ==
    [][\A id \in DOMAIN idempotencyStore :
          now <= idempotencyStore[id].expiresAt =>
             /\ MapHas(idempotencyStore', id)
             /\ idempotencyStore'[id] = idempotencyStore[id]
             /\ \A r \in Reqs :
                   ~(pc[r] = "upstream" /\ payload[r].requestId = id /\ UpstreamDone(r, "ok"))
      ]_vars

\* ------------------------------------------------------------------------
\* C1  Idempotent replay
\* ------------------------------------------------------------------------
\* The submission in slot r, read as `read`, is answered "duplicate" and no
\* upstream POST is issued for it.
AnsweredDuplicate(r, read) ==
    /\ response'.req = r /\ response'.status = 200
    /\ response'.body = [ok |-> TRUE, status |-> "duplicate", requestId |-> RequestIdOf(read)]
    /\ NoUpstreamCall

\* The submission in slot r, read as `read`, is POSTed upstream.
Dispatched(r, read) ==
    /\ pc'[r] = "upstream"
    /\ payload'[r].requestId = RequestIdOf(read)
    /\ response' = NotReturned

\* C1 as stated: a submission whose upstream POST succeeds is answered 200
\* "accepted"; a submission arriving no later than 600000 ms after upstream
\* accepted its requestId is answered 200 "duplicate" and no upstream POST is
\* issued for it; one arriving later than that is POSTed upstream.
C1_ReplayByArrival ==
    [][/\ \A r \in Reqs :
            (pc[r] = "upstream" /\ UpstreamDone(r, "ok")) =>
               /\ response'.req = r /\ response'.status = 200
               /\ response'.body = [ok |-> TRUE, status |-> "accepted",
                                    requestId |-> payload[r].requestId]
       /\ \A r \in Reqs : \A read \in ValidReads :
            (pc[r] = "body" /\ BodyRead(r, read) /\ MapHas(lastAccept, RequestIdOf(read))) =>
               IF atStart[r].now <= lastAccept[RequestIdOf(read)] + 600000
               THEN AnsweredDuplicate(r, read)
               ELSE Dispatched(r, read)
      ]_vars

\* C1 as amended: a submission whose upstream POST succeeds is answered 200
\* "accepted"; a submission looked up (after its body is read) no later than
\* 600000 ms after upstream accepted its requestId is answered 200 "duplicate"
\* and no upstream POST is issued for it; one looked up later than that, as is
\* every one that arrives later than that, or whose requestId was never
\* accepted, is POSTed upstream.
C1_IdempotentReplay ==
    [][/\ \A r \in Reqs :
            (pc[r] = "upstream" /\ UpstreamDone(r, "ok")) =>
               /\ response'.req = r /\ response'.status = 200
               /\ response'.body = [ok |-> TRUE, status |-> "accepted",
                                    requestId |-> payload[r].requestId]
       /\ \A r \in Reqs : \A read \in ValidReads :
            (pc[r] = "body" /\ BodyRead(r, read)) =>
               /\ IF /\ MapHas(lastAccept, RequestIdOf(read))
                     /\ now <= lastAccept[RequestIdOf(read)] + 600000
                  THEN AnsweredDuplicate(r, read)
                  ELSE Dispatched(r, read)
               /\ (/\ MapHas(lastAccept, RequestIdOf(read))
                   /\ atStart[r].now > lastAccept[RequestIdOf(read)] + 600000)
                     => Dispatched(r, read)
      ]_vars

\* A submission that arrived no later than 600000 ms after upstream accepted
\* its requestId, and was looked up later than that, is in flight upstream.
C1_Witness ==
    \E r \in Reqs :
        /\ pc[r] = "upstream"
        /\ MapHas(lastAccept, payload[r].requestId)
        /\ atStart[r].now <= lastAccept[payload[r].requestId] + 600000
        /\ now > lastAccept[payload[r].requestId] + 600000

\* ------------------------------------------------------------------------
\* C2  Rate window
\* ------------------------------------------------------------------------
\* C2: of the calls the limiter receives for one client key within 60000 ms of
\* the first, the first 5 are let through and every further one is rejected;
\* a call made after that window is let through and leaves the bucket at
\* count 1 with resetAt = now + 60000.
C2_RateWindow ==
    [][\A r \in Reqs : \A q \in Requests :
          (q.path = "/contact" /\ q.method = "POST" /\ OriginListed(q) /\ Arrive(r, q)) =>
             LET k == KeyOf(q)
                 inWindow == MapHas(window, k) /\ now <= window[k].start + 60000
                 calls == IF inWindow THEN window[k].calls ELSE 0
             IN  /\ calls < 5 => (pc'[r] = "body" /\ response' = NotReturned)
                 /\ calls >= 5 => (response'.req = r /\ response'.status = 429 /\ pc'[r] = "idle")
                 /\ ~inWindow => rateBucket'[k] = [count |-> 1, resetAt |-> now + 60000]
      ]_vars

\* The sixth call of a window, made at its last instant, has been rejected.
C2_Witness ==
    /\ response.status = 429
    /\ \E k \in DOMAIN window :
          /\ window[k].calls = 6
          /\ now = window[k].start + 60000

\* ------------------------------------------------------------------------
\* C10  Sanitizer idempotence
\* ------------------------------------------------------------------------
\* C10: sanitizing a sanitized text again, with the same maximum, returns it
\* unchanged.
C10_SanitizeIdempotent == san.step = 2 => san.twice = san.once

\* ------------------------------------------------------------------------
\* C11  Validated payload
\* ------------------------------------------------------------------------
\* A text that is not empty, has no white space at either end, no two white
\* space characters in a row, and at most max characters.
CleanText(s, max) ==
    /\ s # <<>>
    /\ Len(s) <= max
    /\ s[1] \notin WhiteSpace
    /\ s[Len(s)] \notin WhiteSpace
    /\ \A i \in 1..(Len(s) - 1) : ~(s[i] \in WhiteSpace /\ s[i + 1] \in WhiteSpace)

\* local@domain.tld: one "@", not in first place, no white space, and a "."
\* after the "@" with at least one character on each side of it.
EmailShaped(s) ==
    /\ Cardinality({i \in 1..Len(s) : s[i] = "@"}) = 1
    /\ \A i \in 1..Len(s) : s[i] \notin WhiteSpace
    /\ \E at \in 2..Len(s) : \E dot \in (at + 2)..(Len(s) - 1) : s[at] = "@" /\ s[dot] = "."

\* C11: when validateBody returns ok, each of requestId, name, email, subject,
\* message and timestamp of its payload is a non-empty text without leading
\* or trailing white space, without a run of two white space characters, of
\* at most 120, 120, 160, 180, 4000 and 80 characters, and email has the shape
\* local@domain.tld.
C11_ValidatedPayload ==
    (val.step = 1 /\ val.result.ok) =>
        LET p == val.result.payload
        IN  /\ CleanText(p.requestId, 120)
            /\ CleanText(p.name, 120)
            /\ CleanText(p.email, 160)
            /\ CleanText(p.subject, 180)
            /\ CleanText(p.message, 4000)
            /\ CleanText(p.timestamp, 80)
            /\ EmailShaped(p.email)

\* ------------------------------------------------------------------------
\* C12  Rate buckets under interleaving
\* ------------------------------------------------------------------------
\* The number of logged calls of key k let through since its current window
\* began.
PassedInWindow(k) ==
    IF ~MapHas(passedAt, k) \/ ~MapHas(window, k) THEN 0
    ELSE Cardinality({i \in 1..Len(passedAt[k]) : passedAt[k][i] >= window[k].start})

\* C12: whatever the interleaving of the requests in flight, every bucket that
\* exists has a count between 1 and 5, a bucket exists for every key that
\* called the limiter, and at most 5 calls of a key are let through within
\* one window of that key.
C12_BucketInvariant ==
    /\ \A k \in DOMAIN rateBucket :
          /\ 1 <= rateBucket[k].count
          /\ rateBucket[k].count <= 5
    /\ DOMAIN window = DOMAIN rateBucket
    /\ \A k \in DOMAIN window : PassedInWindow(k) <= 5

\* A window of a client is used up while a request is in flight in every slot.
C12_Witness ==
    /\ \A r \in Reqs : pc[r] = "body"
    /\ \E k \in DOMAIN rateBucket :
          /\ rateBucket[k].count = 5
          /\ PassedInWindow(k) = 5

\* ------------------------------------------------------------------------
\* C13  Cancellation
\* ------------------------------------------------------------------------
\* C13 as stated: when a request is aborted at either await, the rate buckets
\* and the idempotency store are as they were when the request entered the
\* handler.
C13_NoRollbackNeeded ==
    [][\A r \in Reqs :
          Abort(r) =>
             /\ rateBucket = atStart[r].rateBucket
             /\ idempotencyStore = atStart[r].idempotencyStore
      ]_vars

\* C13 as amended: when a request (handled alone) is aborted at either await,
\* it has written no idempotency record; the idempotency store is as the
\* request found it, but for the already expired record of its own requestId,
\* which its lookup has removed when the abort comes at the upstream await;
\* the rate buckets are as it found them, but for the one slot it took in the
\* bucket of one client key (count one higher, or a new window with count 1).
C13_AbortKeepsSlot ==
    [][\A r \in Reqs :
          Abort(r) =>
             LET old == atStart[r]
                 removed == (DOMAIN old.idempotencyStore) \ (DOMAIN idempotencyStore)
             IN  /\ \A id \in DOMAIN idempotencyStore :
                       /\ MapHas(old.idempotencyStore, id)
                       /\ idempotencyStore[id] = old.idempotencyStore[id]
                 /\ removed \subseteq
                       (IF pc[r] = "upstream" THEN {payload[r].requestId} ELSE {})
                 /\ \A id \in removed : now > old.idempotencyStore[id].expiresAt
                 /\ \E k \in DOMAIN rateBucket :
                       /\ DOMAIN rateBucket = (DOMAIN old.rateBucket) \cup {k}
                       /\ \A j \in (DOMAIN rateBucket) \ {k} : rateBucket[j] = old.rateBucket[j]
                       /\ \/ /\ rateBucket[k].count = 1
                             /\ MapHas(old.rateBucket, k) =>
                                   rateBucket[k].resetAt > old.rateBucket[k].resetAt + 60000
                          \/ /\ MapHas(old.rateBucket, k)
                             /\ rateBucket[k].count = old.rateBucket[k].count + 1
                             /\ rateBucket[k].resetAt = old.rateBucket[k].resetAt
      ]_vars

\* A request has been aborted at the upstream await after its lookup removed
\* an expired record, with its slot taken in a running window.
C13_Witness ==
    \E r \in Reqs :
        /\ response = Aborted(r)
        /\ DOMAIN idempotencyStore # DOMAIN atStart[r].idempotencyStore
        /\ \E k \in DOMAIN rateBucket : rateBucket[k].count > 1

\* ------------------------------------------------------------------------
\* C14  Rejected attempts
\* ------------------------------------------------------------------------
\* C14: a call the limiter rejects leaves every bucket, that of the caller
\* included, exactly as it was; so the window of a key ends 60000 ms after the
\* call that opened it however many calls were rejected since, and the first
\* call of the key after that instant is let through.
C14_RejectKeepsBucket ==
    [][/\ \A r \in Reqs : \A q \in RateRequests :
            Arrive(r, q) =>
               /\ response'.status = 429 => rateBucket' = rateBucket
               /\ (MapHas(window, KeyOf(q)) /\ now > window[KeyOf(q)].start + 60000) =>
                     (pc'[r] = "body" /\ response' = NotReturned)
       /\ \A k \in DOMAIN rateBucket' :
            MapHas(window', k) /\ rateBucket'[k].resetAt = window'[k].start + 60000
      ]_vars

\* A call has been rejected inside the window, later than the call that
\* opened it, and the bucket still ends with that window.
C14_Witness ==
    /\ response.status = 429
    /\ \E k \in DOMAIN window :
          /\ window[k].calls = 6
          /\ now > window[k].start
          /\ now < window[k].start + 60000
          /\ rateBucket[k] = [count |-> 5, resetAt |-> window[k].start + 60000]

\* ------------------------------------------------------------------------
\* C15  Burst across a window boundary
\* ------------------------------------------------------------------------
\* The last n logged calls of a key let through lie within 60000 ms.
LastWithinSpan(log, n) ==
    /\ Len(log) >= n
    /\ log[Len(log)] - log[Len(log) - n + 1] <= 60000

\* The burst the claim describes, as tight as the limiter allows: the last ten
\* calls let through are the five of one window, the last four of them made
\* at its last instant, and the five of the next window, all made at the first
\* instant after it.
BoundaryBurst(k) ==
    /\ MapHas(passedAt, k) /\ Len(passedAt[k]) >= 10
    /\ LET log == passedAt[k]
           n == Len(log)
       IN  /\ \A i \in (n - 4)..n : log[i] = window[k].start
           /\ \A i \in (n - 8)..(n - 5) : log[i] = window[k].start - 1
           /\ log[n - 9] < log[n - 8]
    /\ rateBucket[k].count = 5

\* C15 as stated: no 11 calls of a key are let through within a span of
\* 60000 ms, and the burst of 5 calls at the end of one window and 5 at the
\* start of the next puts 10 within such a span.
C15_TenWithinWindow ==
    \A k \in DOMAIN passedAt :
        /\ ~LastWithinSpan(passedAt[k], 11)
        /\ BoundaryBurst(k) => LastWithinSpan(passedAt[k], 10)

\* C15 as amended: no 10 calls of a key are let through within a span of
\* 60000 ms (at most 9 are: 4 at the end of one window and 5 at the start of
\* the next; the 10 calls of two windows take at least 60001 ms).
C15_BurstBound == \A k \in DOMAIN passedAt : ~LastWithinSpan(passedAt[k], 10)

\* Nine calls have been let through within one millisecond around the window
\* boundary, ten within 60001 ms.
C15_Witness ==
    \E k \in DOMAIN passedAt :
        /\ BoundaryBurst(k)
        /\ LastWithinSpan(passedAt[k], 9)
        /\ passedAt[k][Len(passedAt[k])] - passedAt[k][Len(passedAt[k]) - 9] = 60001

\* ------------------------------------------------------------------------
\* C16  Lookup precedes dispatch
\* ------------------------------------------------------------------------
\* C16: whatever the interleaving, the upstream POST of a request is issued
\* only by the step that resumes it after its body is read, and at the instant
\* of that step the idempotency store holds no unexpired record for the
\* requestId POSTed: none at all after the step, and before it at most one
\* that has expired.
C16_LookupBeforeDispatch ==
    [][\A r \in Reqs :
          (pc'[r] = "upstream" /\ pc[r] # "upstream") =>
             LET id == payload'[r].requestId
             IN  /\ pc[r] = "body"
                 /\ now' = now
                 /\ MapHas(idempotencyStore, id) => now > idempotencyStore[id].expiresAt
                 /\ ~MapHas(idempotencyStore', id)
      ]_vars

\* Two requests are awaiting upstream with the same requestId.
C16_Witness ==
    \E r1 \in Reqs : \E r2 \in Reqs :
        /\ r1 # r2
        /\ pc[r1] = "upstream" /\ pc[r2] = "upstream"
        /\ payload[r1].requestId = payload[r2].requestId
        /\ ~MapHas(idempotencyStore, payload[r1].requestId)

\* ------------------------------------------------------------------------
\* C17  Single pass, single attempt, one response
\* ------------------------------------------------------------------------
\* C17: a request moves forward only: from its entry to the body read or to a
\* response, from the body read to one upstream POST or to a response, from
\* the upstream POST to a response; it gets a response exactly when it ends
\* and none before; and, every body read and upstream call settling, every
\* request in flight ends.
C17_SinglePass ==
    /\ [][\A r \in Reqs :
            /\ (pc[r] = "idle" /\ pc'[r] # "idle") =>
                  (pc'[r] = "body" /\ response' = NotReturned)
            /\ (pc[r] = "body" /\ pc'[r] # "body") =>
                  \/ pc'[r] = "upstream" /\ response' = NotReturned
                  \/ pc'[r] = "idle" /\ response'.req = r /\ response'.status \in {400, 200}
            /\ (pc[r] = "upstream" /\ pc'[r] # "upstream") =>
                  (pc'[r] = "idle" /\ response'.req = r /\ response'.status \in {200, 502})
            /\ (response'.req = r /\ response' # response) =>
                  (pc'[r] = "idle" /\ response'.status # 0)
        ]_vars
    /\ \A r \in Reqs : (pc[r] # "idle") ~> (pc[r] = "idle")

\* The second of two requests in flight has been accepted while the first
\* still awaits its body.
C17_Witness ==
    /\ response.req = 2
    /\ response.status = 200
    /\ response.body.status = "accepted"
    /\ pc[1] = "body"

\* ------------------------------------------------------------------------
\* C18  Lookup at the expiry boundary
\* ------------------------------------------------------------------------
\* The step has answered slot r with "duplicate" for requestId id.
DuplicateFor(r, id) ==
    /\ response'.req = r
    /\ response'.status = 200
    /\ response'.body = [ok |-> TRUE, status |-> "duplicate", requestId |-> id]

\* C18: the lookup of a requestId finds its record exactly when one exists
\* with now <= expiresAt, the instant expiresAt included, and then leaves the
\* store as it is; otherwise it reports none and the store holds no record of
\* that requestId afterwards; in both cases the records of the other
\* requestIds stay as they are.
C18_LookupAtExpiry ==
    [][\A r \in Reqs : \A read \in ValidReads :
          (pc[r] = "body" /\ BodyRead(r, read)) =>
             LET id == RequestIdOf(read)
                 live == MapHas(idempotencyStore, id) /\ now <= idempotencyStore[id].expiresAt
             IN  /\ live <=> DuplicateFor(r, id)
                 /\ live => idempotencyStore' = idempotencyStore
                 /\ ~live => (~MapHas(idempotencyStore', id) /\ pc'[r] = "upstream")
                 /\ DOMAIN idempotencyStore' \subseteq DOMAIN idempotencyStore
                 /\ \A j \in (DOMAIN idempotencyStore) \ {id} :
                       MapHas(idempotencyStore', j) /\ idempotencyStore'[j] = idempotencyStore[j]
      ]_vars

\* A duplicate has been answered at the very instant its record expires,
\* while the expired record of another requestId is still in the store.
C18_Witness ==
    /\ response.status = 200
    /\ response.body.status = "duplicate"
    /\ MapHas(idempotencyStore, response.body.requestId)
    /\ idempotencyStore[response.body.requestId].expiresAt = now
    /\ \E j \in DOMAIN idempotencyStore :
          j # response.body.requestId /\ now > idempotencyStore[j].expiresAt

\* ------------------------------------------------------------------------
\* C19  Duplicates and the expiry of the record
\* ------------------------------------------------------------------------
\* C19: a request answered "duplicate" leaves the idempotency store as it is,
\* so the record of a requestId always expires 600000 ms after the acceptance
\* that wrote it, and the first submission looked up after that instant is
\* dispatched upstream.
C19_DuplicateKeepsExpiry ==
    [][/\ \A r \in Reqs :
            (response'.req = r /\ response'.status = 200 /\ response'.body.status = "duplicate"
             /\ pc[r] = "body" /\ pc'[r] = "idle") =>
               idempotencyStore' = idempotencyStore
       /\ \A id \in DOMAIN idempotencyStore' :
            /\ MapHas(lastAccept', id)
            /\ idempotencyStore'[id].expiresAt = lastAccept'[id] + 600000
       /\ \A r \in Reqs : \A read \in ValidReads :
            (pc[r] = "body" /\ BodyRead(r, read) /\ MapHas(lastAccept, RequestIdOf(read))
             /\ now > lastAccept[RequestIdOf(read)] + 600000) => pc'[r] = "upstream"
      ]_vars

\* A duplicate has been answered later than the acceptance, before the record
\* expires, and the record still expires 600000 ms after the acceptance.
C19_Witness ==
    /\ response.status = 200
    /\ response.body.status = "duplicate"
    /\ MapHas(lastAccept, response.body.requestId)
    /\ now > lastAccept[response.body.requestId]
    /\ now < lastAccept[response.body.requestId] + 600000
    /\ idempotencyStore[response.body.requestId].expiresAt
          = lastAccept[response.body.requestId] + 600000

\* ------------------------------------------------------------------------
\* C20  One bucket per client key
\* ------------------------------------------------------------------------
\* The client key as the claim states it: the value of the CF-Connecting-IP
\* header, "unknown" for a request without that header.
StatedKey(q) == IF q.ip.present THEN q.ip.value ELSE "unknown"

\* The step is the entry of request q in slot r, counted under key k alone:
\* no bucket but that of k is created or changed, and q is rejected exactly
\* when 5 calls under k were made since the window of k began.
CountedUnder(r, q, k) ==
    /\ DOMAIN rateBucket' \subseteq (DOMAIN rateBucket) \cup {k}
    /\ \A j \in (DOMAIN rateBucket) \ {k} :
          MapHas(rateBucket', j) /\ rateBucket'[j] = rateBucket[j]
    /\ MapHas(rateBucket', k)
    /\ (response'.req = r /\ response'.status = 429)
          <=> (/\ MapHas(window, k)
               /\ now <= window[k].start + 60000
               /\ window[k].calls >= 5)

\* C20 as stated: a request is counted under the value of its
\* CF-Connecting-IP header, or under "unknown" when it has none, and under
\* that key alone.
C20_KeyIsHeaderValue ==
    [][\A r \in Reqs : \A q \in RateRequests : Arrive(r, q) => CountedUnder(r, q, StatedKey(q))
      ]_vars

\* C20 as amended: a request is counted under the value of its
\* CF-Connecting-IP header, or under "unknown" when it has none or an empty
\* one, and under that key alone: it changes the bucket of no other key, and
\* whether it is rejected depends on the calls made under its own key only.
C20_KeyIsolation ==
    [][\A r \in Reqs : \A q \in RateRequests : Arrive(r, q) => CountedUnder(r, q, KeyOf(q))
      ]_vars

\* A request without client address has been rejected, the allowance of
\* "unknown" being used up, while the client with an address has used one
\* slot of its own.
C20_Witness ==
    /\ response.status = 429
    /\ MapHas(window, "unknown") /\ window["unknown"].calls = 6
    /\ MapHas(rateBucket, "10.0.0.1") /\ rateBucket["10.0.0.1"].count = 1

====
